---- MODULE Spec2Model ----
(***************************************************************************)
(* Student speaking-assessment report: the Express endpoint that serves    *)
(* data.json (server.js) and the page script that fetches the record,      *)
(* classifies the scores and fills the page (public/script.js).            *)
(*                                                                         *)
(* Scores are decimal numbers with at most three fractional digits.  They  *)
(* are held as integers counting thousandths: 7.5 is 7500, 7.999 is 7999.  *)
(* Decimal-to-double conversion is monotone and 5.0, 6.0, 7.0, 8.0 are     *)
(* exact doubles, so every comparison of the script agrees with the        *)
(* comparison of the thousandths.                                          *)
(***************************************************************************)
EXTENDS Integers, Sequences, FiniteSets, TLC

VARIABLES
  file,          \* data.json on the server's disk
  net,           \* the HTTP exchange of the current page load
  pc,            \* where loadStudentData stands
  data,          \* the value response.json() resolved with
  page,          \* what the script has written into the document
  alerted,       \* the alert of loadStudentData's catch block was shown
  displayCalled, \* displayStudentData was invoked during this page load
  serverErrors,  \* lines console.error has written on the server
  arg,           \* the score handed to the functions called on their own
  call           \* the last such call and its result

vars == <<file, net, pc, data, page, alerted, displayCalled, serverErrors, arg, call>>

appVars == <<file, net, pc, data, page, alerted, displayCalled, serverErrors>>

callVars == <<arg, call>>

----------------------------------------------------------------------------
(* Bounds of the model *)

\* how many thousandths below 0.0 the grid of scores reaches
BelowZero == 1000

\* how many thousandths above 9.0 the grid of scores reaches
AboveNine == 1000

\* how many error lines of the server console are counted
MaxServerErrors == 2

Scores == (0 - BelowZero)..(9000 + AboveNine)

----------------------------------------------------------------------------
(* The feedback table of getFeedback *)

overallMessages ==
  [ excellent |->
      "Excellent performance! You demonstrate exceptional speaking abilities with strong control across all areas.",
    veryGood |->
      "Very good performance! You show strong speaking skills with minor areas for improvement.",
    good |->
      "Good performance with noticeable competence, though some inaccuracies are present.",
    moderate |->
      "Moderate performance. You can communicate but need significant improvement in several areas.",
    needsImprovement |->
      "Needs improvement. Focus on building fundamental speaking skills across all areas." ]

pronunciationMessages ==
  [ excellent |->
      "Excellent pronunciation with clear and accurate articulation of sounds.",
    veryGood |->
      "Very good pronunciation with occasional minor errors that don't impede understanding.",
    good |->
      "Good pronunciation but some sounds need improvement for better clarity.",
    moderate |->
      "Pronunciation needs work; some words are unclear and may affect comprehension.",
    needsImprovement |->
      "Significant pronunciation challenges affecting overall clarity and understanding." ]

fluencyMessages ==
  [ excellent |->
      "Excellent fluency with natural speech flow and minimal hesitation.",
    veryGood |->
      "Very good fluency with smooth delivery and only occasional pauses.",
    good |->
      "Good fluency though some hesitation and unnatural pauses are noticeable.",
    moderate |->
      "Fluency needs improvement; frequent hesitation affects the natural flow of speech.",
    needsImprovement |->
      "Significant fluency issues with many pauses and disrupted speech flow." ]

vocabularyMessages ==
  [ excellent |->
      "Excellent vocabulary range with precise and sophisticated word choices.",
    veryGood |->
      "Very good vocabulary with appropriate word selection and variety.",
    good |->
      "Good vocabulary but limited range; occasional difficulty expressing complex ideas.",
    moderate |->
      "Vocabulary needs expansion; basic words used, limiting expression.",
    needsImprovement |->
      "Limited vocabulary significantly restricts communication ability." ]

grammarMessages ==
  [ excellent |->
      "Excellent grammatical accuracy with sophisticated sentence structures.",
    veryGood |->
      "Very good grammar with minor errors that don't impede communication.",
    good |->
      "Good grammar but some errors in complex structures are noticeable.",
    moderate |->
      "Grammar needs improvement; errors are frequent and may affect clarity.",
    needsImprovement |->
      "Significant grammatical issues affecting overall comprehension." ]

\* the table with the grammar entry pasted from the vocabulary entry
feedbackMapCopyPaste ==
  [ overall |-> overallMessages,
    pronunciation |-> pronunciationMessages,
    fluency |-> fluencyMessages,
    vocabulary |-> vocabularyMessages,
    grammar |-> vocabularyMessages ]

feedbackMap ==
  [ overall |-> overallMessages,
    pronunciation |-> pronunciationMessages,
    fluency |-> fluencyMessages,
    vocabulary |-> vocabularyMessages,
    grammar |-> grammarMessages ]

Categories == {"overall", "pronunciation", "fluency", "vocabulary", "grammar"}

Tiers == {"excellent", "veryGood", "good", "moderate", "needsImprovement"}

\* feedbackMap is an object literal: a key it does not own is looked up on
\* Object.prototype, whose properties are these
ObjectPrototypeKeys ==
  { "constructor", "hasOwnProperty", "isPrototypeOf", "propertyIsEnumerable",
    "toLocaleString", "toString", "valueOf", "__proto__",
    "__defineGetter__", "__defineSetter__", "__lookupGetter__", "__lookupSetter__" }

----------------------------------------------------------------------------
(* Results of a call: a returned string, a returned undefined, or a throw *)

ReturnString(s) == [kind |-> "return", type |-> "string", str |-> s]

ReturnUndefined == [kind |-> "return", type |-> "undefined", str |-> ""]

ThrowTypeError == [kind |-> "throw", type |-> "TypeError", str |-> ""]

----------------------------------------------------------------------------
(* getFeedback *)

\* the ladder with the top comparison strict
feedbackKeyStrict(score) ==
  IF score > 8000 THEN "excellent"
  ELSE IF score >= 7000 THEN "veryGood"
  ELSE IF score >= 6000 THEN "good"
  ELSE IF score >= 5000 THEN "moderate"
  ELSE "needsImprovement"

\* the property of messages the ladder of returns selects
feedbackKey(score) ==
  IF score >= 8000 THEN "excellent"
  ELSE IF score >= 7000 THEN "veryGood"
  ELSE IF score >= 6000 THEN "good"
  ELSE IF score >= 5000 THEN "moderate"
  ELSE "needsImprovement"

\* messages = feedbackMap[skillType]; return messages.<key>.
\* An own key gives the category's messages.  A key of Object.prototype gives
\* an object without the five properties, so the property read is undefined.
\* Any other key gives undefined, and reading a property of it throws.
getFeedback(score, skillType) ==
  IF skillType \in DOMAIN feedbackMap
    THEN ReturnString(feedbackMap[skillType][feedbackKey(score)])
  ELSE IF skillType \in ObjectPrototypeKeys
    THEN ReturnUndefined
  ELSE ThrowTypeError

----------------------------------------------------------------------------
(* getScoreClass *)

\* the ladder without the rung of 6.0
getScoreClassNoFair(score) ==
  IF score >= 8000 THEN "score-excellent"
  ELSE IF score >= 7000 THEN "score-good"
  ELSE "score-poor"

\* the ladder with the last threshold taken from getFeedback
getScoreClassShifted(score) ==
  IF score >= 8000 THEN "score-excellent"
  ELSE IF score >= 7000 THEN "score-good"
  ELSE IF score >= 5000 THEN "score-fair"
  ELSE "score-poor"

getScoreClass(score) ==
  IF score >= 8000 THEN "score-excellent"
  ELSE IF score >= 7000 THEN "score-good"
  ELSE IF score >= 6000 THEN "score-fair"
  ELSE "score-poor"

----------------------------------------------------------------------------
(* Number.prototype.toFixed(1) and parseFloat *)

DigitChar(d) == SubSeq("0123456789", d + 1, d + 1)

IsDigit(c) == \E d \in 0..9 : DigitChar(d) = c

DigitVal(c) == CHOOSE d \in 0..9 : DigitChar(d) = c

RECURSIVE IntToString(_)
IntToString(n) ==
  IF n < 10 THEN DigitChar(n)
  ELSE IntToString(n \div 10) \o DigitChar(n % 10)

Abs(n) == IF n < 0 THEN 0 - n ELSE n

\* toFixed(1) picks the integer n for which n/10 is nearest to the exact
\* value of the double, and the larger n when two are equally near.  A
\* decimal ending in 5 hundredths lies halfway in decimal terms; the double
\* nearest to it lies on one side or is exact.  These are the halfway
\* decimals from 0.05 to 12.95 whose double is exact or above the decimal,
\* which toFixed(1) therefore rounds up (IEEE-754 binary64).
TieRoundsUp ==
  { 50, 250, 450, 550, 650, 750, 1050, 1250, 1350, 1550, 1750, 1850, 2250,
    2350, 2450, 2750, 2850, 2950, 3250, 3350, 3450, 3750, 3850, 3950, 4150,
    4250, 4450, 4650, 4750, 4950, 5150, 5250, 5450, 5650, 5750, 5950, 6150,
    6250, 6450, 6650, 6750, 6950, 7150, 7250, 7450, 7650, 7750, 7950, 8050,
    8150, 8250, 8550, 8650, 8750, 9050, 9150, 9250, 9550, 9650, 9750, 10050,
    10150, 10250, 10550, 10650, 10750, 11050, 11150, 11250, 11550, 11650,
    11750, 12050, 12150, 12250, 12550, 12650, 12750 }

\* the number of tenths toFixed(1) prints for the magnitude m
Tenths(m) ==
  IF m % 100 = 50
    THEN (IF m \in TieRoundsUp THEN m \div 100 + 1 ELSE m \div 100)
    ELSE (m + 50) \div 100

\* one decimal place by cutting the further digits off
toFixedTruncating(score) ==
  (IF score < 0 THEN "-" ELSE "")
    \o IntToString(Abs(score) \div 1000) \o "."
    \o DigitChar((Abs(score) \div 100) % 10)

\* score.toFixed(1): the sign, the integer digits, a point, one digit
toFixed(score) ==
  (IF score < 0 THEN "-" ELSE "")
    \o IntToString(Tenths(Abs(score)) \div 10) \o "."
    \o DigitChar(Tenths(Abs(score)) % 10)

CharAt(s, i) == SubSeq(s, i, i)

\* the value of the digits of s from position i on, after the digits acc
RECURSIVE ReadDigits(_, _, _)
ReadDigits(s, i, acc) ==
  IF i <= Len(s) /\ IsDigit(CharAt(s, i))
    THEN ReadDigits(s, i + 1, [val |-> acc.val * 10 + DigitVal(CharAt(s, i)),
                               len |-> acc.len + 1])
    ELSE acc

Pow10(k) == IF k = 0 THEN 1 ELSE IF k = 1 THEN 10 ELSE IF k = 2 THEN 100 ELSE 1000

\* parseFloat of a decimal literal with at most three fractional digits:
\* an optional sign, integer digits, an optional point and fraction
parseFloat(s) ==
  LET neg == Len(s) > 0 /\ CharAt(s, 1) = "-"
      i0 == IF neg THEN 2 ELSE 1
      int == ReadDigits(s, i0, [val |-> 0, len |-> 0])
      i1 == i0 + int.len
      hasPoint == i1 <= Len(s) /\ CharAt(s, i1) = "."
      frac == IF hasPoint THEN ReadDigits(s, i1 + 1, [val |-> 0, len |-> 0])
              ELSE [val |-> 0, len |-> 0]
      mag == int.val * 1000 + frac.val * Pow10(3 - frac.len)
  IN IF neg THEN 0 - mag ELSE mag

----------------------------------------------------------------------------
(* updateProgressBar *)

\* the percentage kept within 0 and 100
updateProgressBarClamped(score) ==
  [ num |-> IF score < 0 THEN 0 ELSE IF score > 9000 THEN 9000 * 100 ELSE score * 100,
    den |-> 9 * 1000 ]

\* the percentage of a scale of ten
updateProgressBarOutOfTen(score) == [num |-> score * 100, den |-> 10 * 1000]

\* percentage = (score / 9) * 100, kept as the exact fraction num/den
updateProgressBar(score) == [num |-> score * 100, den |-> 9 * 1000]

----------------------------------------------------------------------------
(* JavaScript values and JSON documents *)

Num(n) == [t |-> "number", n |-> n, s |-> ""]

Str(s) == [t |-> "string", n |-> 0, s |-> s]

Undefined == [t |-> "undefined", n |-> 0, s |-> ""]

\* the skills object: its properties in the order the JSON text lists them
SkillsObject(entries) == [kind |-> "object", entries |-> entries]

NoSkills == [kind |-> "undefined", entries |-> <<>>]

\* a parsed JSON document; a property the document lacks reads as undefined
Document(name, date, overall, skills) ==
  [ kind |-> "object", studentName |-> name, testDate |-> date,
    overallScore |-> overall, skills |-> skills,
    error |-> Undefined, message |-> Undefined ]

\* the document null
NullDocument ==
  [ kind |-> "null", studentName |-> Undefined, testDate |-> Undefined,
    overallScore |-> Undefined, skills |-> NoSkills,
    error |-> Undefined, message |-> Undefined ]

\* the object of the handler's catch block: { error, message }
ErrorDocument(message) ==
  [ kind |-> "object", studentName |-> Undefined, testDate |-> Undefined,
    overallScore |-> Undefined, skills |-> NoSkills,
    error |-> Str("Failed to load student data"), message |-> Str(message) ]

\* skills.<key>: the value of the property, undefined when there is none
RECURSIVE GetProperty(_, _)
GetProperty(entries, key) ==
  IF entries = <<>> THEN Undefined
  ELSE IF Head(entries)[1] = key THEN Head(entries)[2]
  ELSE GetProperty(Tail(entries), key)

\* A JSON text: whether it parses, how it is laid out, the value it denotes
JsonText(valid, pretty, value) == [valid |-> valid, pretty |-> pretty, value |-> value]

\* JSON.stringify as res.json applies it: one line, no indentation
JSONstringify(value) == JsonText(TRUE, FALSE, value)

----------------------------------------------------------------------------
(* The contents data.json is given in the model *)

SampleDocument ==
  Document(Str("John Doe"), Str("2024-12-20"), Num(7500),
    SkillsObject(<< <<"pronunciation", Num(8000)>>, <<"fluency", Num(7500)>>,
                    <<"vocabulary", Num(7000)>>, <<"grammar", Num(7500)>> >>))

ReorderedDocument ==
  Document(Str("Jane Roe"), Str("2025-01-15"), Num(6500),
    SkillsObject(<< <<"grammar", Num(4999)>>, <<"vocabulary", Num(5000)>>,
                    <<"fluency", Num(7999)>>, <<"pronunciation", Num(9000)>> >>))

OutOfRangeDocument ==
  Document(Str("Max Out"), Str("2025-02-01"), Num(9500),
    SkillsObject(<< <<"pronunciation", Num(0 - 250)>>, <<"fluency", Num(10000)>>,
                    <<"vocabulary", Num(0)>>, <<"grammar", Num(5999)>> >>))

HalfwayDocument ==
  Document(Str("Tie Case"), Str("2025-03-01"), Num(7450),
    SkillsObject(<< <<"pronunciation", Num(8350)>>, <<"fluency", Num(6000)>>,
                    <<"vocabulary", Num(8750)>>, <<"grammar", Num(1450)>> >>))

NoSkillsDocument ==
  Document(Str("John Doe"), Str("2024-12-20"), Num(7500), NoSkills)

StringScoreDocument ==
  Document(Str("John Doe"), Str("2024-12-20"), Str("7.5"),
    SkillsObject(<< <<"pronunciation", Num(8000)>>, <<"fluency", Num(7500)>>,
                    <<"vocabulary", Num(7000)>>, <<"grammar", Num(7500)>> >>))

NoGrammarDocument ==
  Document(Str("John Doe"), Str("2024-12-20"), Num(7500),
    SkillsObject(<< <<"pronunciation", Num(8000)>>, <<"fluency", Num(7500)>>,
                    <<"vocabulary", Num(7000)>> >>))

Documents ==
  { SampleDocument, ReorderedDocument, OutOfRangeDocument, HalfwayDocument,
    NoSkillsDocument, StringScoreDocument, NoGrammarDocument, NullDocument }

\* the texts an edit may leave in data.json: every document on one line,
\* and the sample of the README indented
ValidTexts ==
  { JsonText(TRUE, FALSE, d) : d \in Documents } \cup { JsonText(TRUE, TRUE, SampleDocument) }

\* a text JSON.parse rejects
GarbageText == JsonText(FALSE, FALSE, NullDocument)

FileWith(text) == [exists |-> TRUE, text |-> text]

NoFile == [exists |-> FALSE, text |-> GarbageText]

----------------------------------------------------------------------------
(* server.js: GET /api/student-report *)

Response(status, body) == [stage |-> "response", status |-> status, body |-> body]

\* the catch block answering 200 because res.status(500) was left out
studentReportAlwaysOk(f) ==
  IF ~f.exists
    THEN Response(200, JSONstringify(ErrorDocument("ENOENT: no such file or directory")))
  ELSE IF ~f.text.valid
    THEN Response(200, JSONstringify(ErrorDocument("Unexpected token in JSON")))
  ELSE Response(200, JSONstringify(f.text.value))

\* readFileSync throws when the file is missing, JSON.parse throws when the
\* text does not parse; the catch block answers 500 with { error, message };
\* otherwise res.json sends the parsed value with status 200
studentReport(f) ==
  IF ~f.exists
    THEN Response(500, JSONstringify(ErrorDocument("ENOENT: no such file or directory")))
  ELSE IF ~f.text.valid
    THEN Response(500, JSONstringify(ErrorDocument("Unexpected token in JSON")))
  ELSE Response(200, JSONstringify(f.text.value))

----------------------------------------------------------------------------
(* The page *)

SkillOrder == <<"pronunciation", "fluency", "vocabulary", "grammar">>

TextIds ==
  { "studentName", "testDate", "overallScore", "overallDescription", "overallFeedback" }
    \cup { SkillOrder[i] \o "Score" : i \in 1..4 }
    \cup { SkillOrder[i] \o "Feedback" : i \in 1..4 }

ClassIds == { "overallScore" } \cup { SkillOrder[i] \o "Score" : i \in 1..4 }

ProgressIds == { SkillOrder[i] \o "Progress" : i \in 1..4 }

NoWidth == [num |-> 0, den |-> 1]

\* the document before the script has written anything
BlankPage ==
  [ text |-> [id \in TextIds |-> ""],
    class |-> [id \in ClassIds |-> ""],
    width |-> [id \in ProgressIds |-> NoWidth],
    written |-> {},
    charts |-> <<>> ]

SetText(p, id, s) ==
  [p EXCEPT !.text[id] = s, !.written = @ \cup {<<id, "textContent">>}]

SetClass(p, id, c) ==
  [p EXCEPT !.class[id] = c, !.written = @ \cup {<<id, "className">>}]

\* style.width = percentage + '%': a negative percentage is no value of the
\* width property, so the declaration is dropped and the element keeps the
\* width it had
SetWidth(p, id, w) ==
  IF w.num < 0 THEN p
  ELSE [p EXCEPT !.width[id] = w, !.written = @ \cup {<<id, "style.width">>}]

\* the fraction digits of String(number) without trailing zeros
FractionDigits(m) ==
  IF m % 1000 = 0 THEN ""
  ELSE "." \o DigitChar((m \div 100) % 10)
    \o (IF m % 100 = 0 THEN ""
        ELSE DigitChar((m \div 10) % 10)
          \o (IF m % 10 = 0 THEN "" ELSE DigitChar(m % 10)))

\* what assigning v to textContent leaves in the element: the string, the
\* number as String prints it, and the empty string for undefined
ToDomString(v) ==
  IF v.t = "string" THEN v.s
  ELSE IF v.t = "number"
    THEN (IF v.n < 0 THEN "-" ELSE "") \o IntToString(Abs(v.n) \div 1000)
           \o FractionDigits(Abs(v.n))
  ELSE ""

Completed(p) == [page |-> p, threw |-> FALSE]

Threw(p) == [page |-> p, threw |-> TRUE]

----------------------------------------------------------------------------
(* createCharts *)

skillLabels == <<"Pronunciation", "Fluency", "Vocabulary", "Grammar">>

Chart(type, labels, values) == [type |-> type, labels |-> labels, data |-> values]

ChartsMade(charts) == [charts |-> charts, threw |-> FALSE]

ChartsThrew == [charts |-> <<>>, threw |-> TRUE]

\* the values taken in the order of the keys of the record
createChartsByPosition(skills) ==
  IF skills.kind # "object" THEN ChartsThrew
  ELSE LET skillValues == [i \in 1..Len(skills.entries) |-> skills.entries[i][2]]
       IN ChartsMade(<< Chart("radar", skillLabels, skillValues),
                        Chart("bar", skillLabels, skillValues) >>)

\* skillValues reads the four properties by name, which throws when skills
\* is undefined; both charts are built from the same skillLabels and
\* skillValues
createCharts(skills) ==
  IF skills.kind # "object" THEN ChartsThrew
  ELSE LET skillValues == << GetProperty(skills.entries, "pronunciation"),
                             GetProperty(skills.entries, "fluency"),
                             GetProperty(skills.entries, "vocabulary"),
                             GetProperty(skills.entries, "grammar") >>
       IN ChartsMade(<< Chart("radar", skillLabels, skillValues),
                        Chart("bar", skillLabels, skillValues) >>)

----------------------------------------------------------------------------
(* displayStudentData, statement by statement; a statement that throws     *)
(* leaves the writes made before it                                        *)

\* the string a call of getFeedback left for textContent
FeedbackText(r) == IF r.type = "string" THEN r.str ELSE ""

\* student information: reading a property of null throws
InfoBlock(d, p) ==
  IF d.kind = "null" THEN Threw(p)
  ELSE Completed(SetText(SetText(p, "studentName", ToDomString(d.studentName)),
                         "testDate", ToDomString(d.testDate)))

\* overall score: toFixed exists on numbers only
OverallBlock(d, p) ==
  LET v == d.overallScore
  IN IF v.t # "number" THEN Threw(p)
     ELSE LET p1 == SetText(p, "overallScore", toFixed(v.n))
              p2 == SetClass(p1, "overallScore", "score-value " \o getScoreClass(v.n))
              fb == getFeedback(v.n, "overall")
          IN IF fb.kind = "throw" THEN Threw(p2)
             ELSE Completed(SetText(SetText(p2, "overallDescription", FeedbackText(fb)),
                                    "overallFeedback", FeedbackText(fb)))

\* one skill: score text, colour class, progress bar, feedback
SkillBlock(skills, p, name) ==
  IF skills.kind # "object" THEN Threw(p)
  ELSE LET v == GetProperty(skills.entries, name)
       IN IF v.t # "number" THEN Threw(p)
          ELSE LET p1 == SetText(p, name \o "Score", toFixed(v.n))
                   p2 == SetClass(p1, name \o "Score", "skill-score " \o getScoreClass(v.n))
                   p3 == SetWidth(p2, name \o "Progress", updateProgressBar(v.n))
                   fb == getFeedback(v.n, name)
               IN IF fb.kind = "throw" THEN Threw(p3)
                  ELSE Completed(SetText(p3, name \o "Feedback", FeedbackText(fb)))

\* the skill blocks from the i-th on, in the order of the source
RECURSIVE SkillBlocks(_, _, _)
SkillBlocks(skills, p, i) ==
  IF i > Len(SkillOrder) THEN Completed(p)
  ELSE LET r == SkillBlock(skills, p, SkillOrder[i])
       IN IF r.threw THEN r ELSE SkillBlocks(skills, r.page, i + 1)

displayStudentData(d, p) ==
  LET a == InfoBlock(d, p)
  IN IF a.threw THEN a
     ELSE LET b == OverallBlock(d, a.page)
          IN IF b.threw THEN b
             ELSE LET c == SkillBlocks(d.skills, b.page, 1)
                  IN IF c.threw THEN c
                     ELSE LET ch == createCharts(d.skills)
                          IN IF ch.threw THEN Threw(c.page)
                             ELSE Completed([c.page EXCEPT !.charts = ch.charts])

----------------------------------------------------------------------------
(* loadStudentData *)

\* the check of response.ok left out
responseOkUnchecked(status) == TRUE

\* response.ok: the status is in the range 200-299
responseOk(status) == status >= 200 /\ status <= 299

NoExchange == [stage |-> "idle", status |-> 0, body |-> GarbageText]

RequestSent == [stage |-> "request", status |-> 0, body |-> GarbageText]

ExchangeFailed == [stage |-> "failed", status |-> 0, body |-> GarbageText]

NoData ==
  [ kind |-> "none", studentName |-> Undefined, testDate |-> Undefined,
    overallScore |-> Undefined, skills |-> NoSkills,
    error |-> Undefined, message |-> Undefined ]

NoCall ==
  [ op |-> "none", cat |-> "", kind |-> "none", type |-> "", str |-> "",
    num |-> 0, den |-> 1, str2 |-> "" ]

AppInit ==
  /\ file = FileWith(JsonText(TRUE, TRUE, SampleDocument))
  /\ net = NoExchange
  /\ pc = "idle"
  /\ data = NoData
  /\ page = BlankPage
  /\ alerted = FALSE
  /\ displayCalled = FALSE
  /\ serverErrors = 0

Init == AppInit /\ arg = 0 /\ call = NoCall

\* DOMContentLoaded on a fresh document: loadStudentData runs up to await fetch
PageLoad ==
  /\ pc \in {"idle", "done"}
  /\ pc' = "fetching"
  /\ net' = RequestSent
  /\ data' = NoData
  /\ page' = BlankPage
  /\ alerted' = FALSE
  /\ displayCalled' = FALSE
  /\ UNCHANGED <<file, serverErrors>>
  /\ UNCHANGED callVars

\* the route handler answers the request from the file as it is now
ServerHandle ==
  /\ net.stage = "request"
  /\ net' = studentReport(file)
  /\ serverErrors' = IF net'.status = 500 /\ serverErrors < MaxServerErrors
                       THEN serverErrors + 1 ELSE serverErrors
  /\ UNCHANGED <<file, pc, data, page, alerted, displayCalled>>
  /\ UNCHANGED callVars

\* fetch rejects (the server is down, the connection breaks): catch block
FetchRejects ==
  /\ pc = "fetching"
  /\ net.stage \in {"request", "response"}
  /\ net' = ExchangeFailed
  /\ pc' = "done"
  /\ alerted' = TRUE
  /\ UNCHANGED <<file, data, page, displayCalled, serverErrors>>
  /\ UNCHANGED callVars

\* fetch resolves: a response that is not ok throws into the catch block,
\* otherwise the body is awaited
OnResponse ==
  /\ pc = "fetching"
  /\ net.stage = "response"
  /\ IF responseOk(net.status)
       THEN pc' = "parsing" /\ alerted' = alerted
       ELSE pc' = "done" /\ alerted' = TRUE
  /\ UNCHANGED <<file, net, data, page, displayCalled, serverErrors>>
  /\ UNCHANGED callVars

\* response.json() resolves or rejects; displayStudentData runs inside the
\* try block, so whatever it throws ends in the catch block as well
OnBody ==
  /\ pc = "parsing"
  /\ pc' = "done"
  /\ IF ~net.body.valid
       THEN /\ alerted' = TRUE
            /\ UNCHANGED <<data, page, displayCalled>>
       ELSE LET r == displayStudentData(net.body.value, page)
            IN /\ data' = net.body.value
               /\ displayCalled' = TRUE
               /\ page' = r.page
               /\ alerted' = r.threw
  /\ UNCHANGED <<file, net, serverErrors>>
  /\ UNCHANGED callVars

\* response.json() rejects because the body of an ok response cannot be
\* read to its end (the connection is lost after the headers): catch block
BodyRejects ==
  /\ pc = "parsing"
  /\ pc' = "done"
  /\ net' = ExchangeFailed
  /\ alerted' = TRUE
  /\ UNCHANGED <<file, data, page, displayCalled, serverErrors>>
  /\ UNCHANGED callVars

\* data.json is edited
EditFile(text) ==
  /\ file # FileWith(text)
  /\ file' = FileWith(text)
  /\ UNCHANGED <<net, pc, data, page, alerted, displayCalled, serverErrors>>
  /\ UNCHANGED callVars

\* data.json is deleted
DeleteFile ==
  /\ file.exists
  /\ file' = NoFile
  /\ UNCHANGED <<net, pc, data, page, alerted, displayCalled, serverErrors>>
  /\ UNCHANGED callVars

\* data.json is left with a text that is not JSON
CorruptFile ==
  /\ file # FileWith(GarbageText)
  /\ file' = FileWith(GarbageText)
  /\ UNCHANGED <<net, pc, data, page, alerted, displayCalled, serverErrors>>
  /\ UNCHANGED callVars

Next ==
  \/ PageLoad
  \/ ServerHandle
  \/ FetchRejects
  \/ OnResponse
  \/ OnBody
  \/ BodyRejects
  \/ \E text \in ValidTexts : EditFile(text)
  \/ DeleteFile
  \/ CorruptFile

Spec == Init /\ [][Next]_vars

----------------------------------------------------------------------------
(* The functions of the script called on their own, on every score of the  *)
(* grid                                                                    *)

\* the skill types a call of getFeedback is given
SkillTypes == Categories \cup {"unknown", "", "Grammar", "toString", "constructor", "__proto__"}

InitCalc == AppInit /\ arg \in Scores /\ call = NoCall

CallGetFeedback(skillType) ==
  /\ call' = [NoCall EXCEPT !.op = "getFeedback", !.cat = skillType,
                            !.kind = getFeedback(arg, skillType).kind,
                            !.type = getFeedback(arg, skillType).type,
                            !.str = getFeedback(arg, skillType).str]
  /\ UNCHANGED arg
  /\ UNCHANGED appVars

CallGetScoreClass ==
  /\ call' = [NoCall EXCEPT !.op = "getScoreClass", !.kind = "return",
                            !.type = "string", !.str = getScoreClass(arg)]
  /\ UNCHANGED arg
  /\ UNCHANGED appVars

CallToFixed ==
  /\ call' = [NoCall EXCEPT !.op = "toFixed", !.kind = "return",
                            !.type = "string", !.str = toFixed(arg)]
  /\ UNCHANGED arg
  /\ UNCHANGED appVars

\* the displayed text is parsed back
CallParseFloat ==
  /\ call.op = "toFixed"
  /\ call' = [call EXCEPT !.op = "parseFloat", !.type = "number", !.num = parseFloat(call.str)]
  /\ UNCHANGED arg
  /\ UNCHANGED appVars

\* the parsed value is formatted again
CallToFixedAgain ==
  /\ call.op = "parseFloat"
  /\ call' = [call EXCEPT !.op = "toFixedAgain", !.type = "string", !.str2 = toFixed(call.num)]
  /\ UNCHANGED arg
  /\ UNCHANGED appVars

\* the two calls displayStudentData makes for one metric: the colour class
\* and the feedback text of the same score
CallClassAndFeedback(skillType) ==
  /\ skillType \in Categories
  /\ call' = [NoCall EXCEPT !.op = "classAndFeedback", !.cat = skillType,
                            !.kind = getFeedback(arg, skillType).kind,
                            !.type = getFeedback(arg, skillType).type,
                            !.str = getScoreClass(arg),
                            !.str2 = FeedbackText(getFeedback(arg, skillType))]
  /\ UNCHANGED arg
  /\ UNCHANGED appVars

CallUpdateProgressBar ==
  /\ call' = [NoCall EXCEPT !.op = "updateProgressBar", !.kind = "return",
                            !.type = "undefined",
                            !.num = updateProgressBar(arg).num,
                            !.den = updateProgressBar(arg).den]
  /\ UNCHANGED arg
  /\ UNCHANGED appVars

NextCalc ==
  \/ \E skillType \in SkillTypes : CallGetFeedback(skillType)
  \/ CallGetScoreClass
  \/ CallToFixed
  \/ CallParseFloat
  \/ CallToFixedAgain
  \/ \E skillType \in Categories : CallClassAndFeedback(skillType)
  \/ CallUpdateProgressBar

SpecCalc == InitCalc /\ [][NextCalc]_vars

----------------------------------------------------------------------------
(* Properties of the functions called on their own (SpecCalc) *)

FeedbackCallOnCategory == call.op = "getFeedback" /\ call.cat \in Categories

\* C1: for every score of the grid, the string getFeedback returns for one of
\* the five categories is that category's message of exactly one tier:
\* excellent iff s >= 8.0, veryGood iff 7.0 <= s < 8.0, good iff
\* 6.0 <= s < 7.0, moderate iff 5.0 <= s < 6.0, needsImprovement iff s < 5.0.
C1_FeedbackTierPartition ==
  FeedbackCallOnCategory =>
    LET m == feedbackMap[call.cat]
    IN /\ call.kind = "return" /\ call.type = "string"
       /\ Cardinality({t \in Tiers : m[t] = call.str}) = 1
       /\ (call.str = m.excellent <=> arg >= 8000)
       /\ (call.str = m.veryGood <=> (arg >= 7000 /\ arg < 8000))
       /\ (call.str = m.good <=> (arg >= 6000 /\ arg < 7000))
       /\ (call.str = m.moderate <=> (arg >= 5000 /\ arg < 6000))
       /\ (call.str = m.needsImprovement <=> arg < 5000)

\* 7.999 was classified and came out VeryGood
C1_Witness ==
  /\ FeedbackCallOnCategory
  /\ arg = 7999
  /\ call.str = feedbackMap[call.cat].veryGood

\* C4: for each of the five categories and each tier, getFeedback returns a
\* non-empty string, and the string returned for any other pair of category
\* and tier is a different one.
C4_FeedbackStringsDistinct ==
  FeedbackCallOnCategory =>
    /\ call.kind = "return" /\ call.type = "string"
    /\ Len(call.str) > 0
    /\ \A c2 \in Categories : \A s2 \in {4999, 5000, 6000, 7000, 8000} :
         (c2 # call.cat \/ feedbackKey(s2) # feedbackKey(arg))
           => getFeedback(s2, c2).str # call.str

\* the grammar message of the Moderate tier was returned
C4_Witness ==
  /\ FeedbackCallOnCategory
  /\ call.cat = "grammar"
  /\ arg = 5500
  /\ call.str = "Grammar needs improvement; errors are frequent and may affect clarity."

\* C5: for any score and any skill type outside the five categories,
\* getFeedback throws; it never returns.
C5_UnknownCategoryThrows ==
  (call.op = "getFeedback" /\ call.cat \notin Categories) => call.kind = "throw"

\* C6: for every score of the grid getScoreClass returns one of four classes:
\* excellent iff s >= 8.0, good iff 7.0 <= s < 8.0, fair iff 6.0 <= s < 7.0,
\* poor iff s < 6.0.
C6_ScoreClassPartition ==
  call.op = "getScoreClass" =>
    /\ call.str \in {"score-excellent", "score-good", "score-fair", "score-poor"}
    /\ (call.str = "score-excellent" <=> arg >= 8000)
    /\ (call.str = "score-good" <=> (arg >= 7000 /\ arg < 8000))
    /\ (call.str = "score-fair" <=> (arg >= 6000 /\ arg < 7000))
    /\ (call.str = "score-poor" <=> arg < 6000)

\* 5.999 was classified and came out poor
C6_Witness == call.op = "getScoreClass" /\ arg = 5999 /\ call.str = "score-poor"

\* C10: for every score in [0, 9], the text toFixed(1) gives parses back to a
\* value at most 0.05 from the score, and formatting the parsed value gives
\* the same text again.
C10_FormatRoundTrip ==
  (arg >= 0 /\ arg <= 9000) =>
    /\ call.op \in {"parseFloat", "toFixedAgain"} => Abs(call.num - arg) <= 50
    /\ call.op = "toFixedAgain" => call.str2 = call.str

\* 8.75 was formatted to "8.8", parsed back to 8.8 and formatted again
C10_Witness ==
  /\ call.op = "toFixedAgain"
  /\ arg = 8750
  /\ call.str = "8.8"
  /\ call.num = 8800
  /\ call.str2 = "8.8"

----------------------------------------------------------------------------
(* Properties of the page load and of the server (Spec) *)

\* C2: whenever the alert of loadStudentData has been shown, the script has
\* written nothing into the page.
C2_NoPartialRenderOnError ==
  alerted => (page.written = {} /\ page.charts = <<>>)

IsErrorBody(body) ==
  /\ body.valid
  /\ body.value.kind = "object"
  /\ body.value.error.t = "string"
  /\ body.value.message.t = "string"

\* C3: a request handled while data.json is missing is answered with status
\* 500 and the error object; and in a page load that received a 500 the
\* body is never awaited, displayStudentData is never invoked, and the load
\* ends with the alert.
C3_MissingFileIsRetrievalError ==
  /\ [][(net.stage = "request" /\ net'.stage = "response" /\ ~file.exists)
          => (net'.status = 500 /\ IsErrorBody(net'.body))]_vars
  /\ []((net.stage = "response" /\ net.status = 500)
          => (/\ ~displayCalled
              /\ pc # "parsing"
              /\ (pc = "done" => alerted)))

\* the load ended with the alert after the server answered 500 for the
\* missing file, and nothing was displayed
C3_Witness ==
  /\ ~file.exists
  /\ pc = "done"
  /\ net.stage = "response" /\ net.status = 500
  /\ net.body.value.message = Str("ENOENT: no such file or directory")
  /\ alerted
  /\ ~displayCalled
  /\ page = BlankPage

IsSampleRecord(d) ==
  /\ d.kind = "object"
  /\ d.overallScore = Num(7500)
  /\ d.skills.kind = "object"
  /\ GetProperty(d.skills.entries, "pronunciation") = Num(8000)
  /\ GetProperty(d.skills.entries, "fluency") = Num(7500)
  /\ GetProperty(d.skills.entries, "vocabulary") = Num(7000)
  /\ GetProperty(d.skills.entries, "grammar") = Num(7500)

\* C7: after displayStudentData has rendered the record {overallScore 7.5,
\* skills {pronunciation 8.0, fluency 7.5, vocabulary 7.0, grammar 7.5}}, the
\* overall score reads "7.5" with class score-good, pronunciation has class
\* score-excellent and a bar of 8.0/9.0 * 100 percent (88.89 to two places),
\* and grammar has class score-good.
C7_SampleRecordRendering ==
  (displayCalled /\ IsSampleRecord(data)) =>
    /\ ~alerted
    /\ page.text["overallScore"] = "7.5"
    /\ page.class["overallScore"] = "score-value score-good"
    /\ page.class["pronunciationScore"] = "skill-score score-excellent"
    /\ LET w == page.width["pronunciationProgress"]
       IN /\ w.num * 9 = 8 * 100 * w.den
          /\ (w.num * 100 * 2 + w.den) \div (2 * w.den) = 8889
    /\ page.class["grammarScore"] = "skill-score score-good"

\* the sample record has been rendered
C7_Witness ==
  /\ pc = "done"
  /\ displayCalled
  /\ IsSampleRecord(data)
  /\ page.text["pronunciationScore"] = "8.0"
  /\ <<"pronunciationProgress", "style.width">> \in page.written

\* C8: every answer is computed from data.json as it is when the request is
\* handled, in every reachable state: the parsed value with status 200 when
\* the file holds valid JSON, status 500 when it is missing or does not parse.
C8_AnswerFromCurrentFile ==
  [][(net.stage = "request" /\ net'.stage = "response")
       => IF file.exists /\ file.text.valid
            THEN /\ net'.status = 200
                 /\ net'.body.valid
                 /\ net'.body.value = file.text.value
            ELSE net'.status = 500]_vars

\* after earlier failures, the edited file was served with success
C8_Witness ==
  /\ serverErrors > 0
  /\ file = FileWith(JsonText(TRUE, FALSE, ReorderedDocument))
  /\ net.stage = "response" /\ net.status = 200
  /\ net.body.value = ReorderedDocument

LabelKey == <<"pronunciation", "fluency", "vocabulary", "grammar">>

\* C9: the charts are the radar chart and the bar chart, both with the
\* labels [Pronunciation, Fluency, Vocabulary, Grammar] and both with, at
\* each label, the value the record gives the skill of that name.
C9_ChartSeriesByName ==
  page.charts # <<>> =>
    /\ Len(page.charts) = 2
    /\ page.charts[1].type = "radar"
    /\ page.charts[2].type = "bar"
    /\ \A k \in 1..2 :
         /\ page.charts[k].labels = <<"Pronunciation", "Fluency", "Vocabulary", "Grammar">>
         /\ Len(page.charts[k].data) = 4
         /\ \A i \in 1..4 : \E j \in 1..Len(data.skills.entries) :
              data.skills.entries[j] = <<LabelKey[i], page.charts[k].data[i]>>
    /\ page.charts[1].labels = page.charts[2].labels
    /\ page.charts[1].data = page.charts[2].data

\* charts were made of a record that lists its skills in another order
C9_Witness ==
  /\ page.charts # <<>>
  /\ data = ReorderedDocument
  /\ page.charts[1].data[1] = Num(9000)
  /\ page.charts[2].data[4] = Num(4999)

----------------------------------------------------------------------------
(* Scores outside [0, 9] and the agreement of colour and feedback *)

\* every metric of the record d holds a number
AllScoresNumeric(d) ==
  /\ d.kind = "object"
  /\ d.overallScore.t = "number"
  /\ d.skills.kind = "object"
  /\ \A i \in 1..4 : GetProperty(d.skills.entries, SkillOrder[i]).t = "number"

\* the class the thresholds 8.0, 7.0, 6.0 give the score n
ClassByThreshold(n) ==
  IF n >= 8000 THEN "score-excellent"
  ELSE IF n >= 7000 THEN "score-good"
  ELSE IF n >= 6000 THEN "score-fair"
  ELSE "score-poor"

\* C11 as first stated: a record whose scores are numbers is rendered
\* whatever their range, each class given by the same thresholds, and each
\* bar exactly score / 9 * 100 percent, so above 100 for a score above 9 and
\* negative for a negative score.
C11_EveryBarIsScoreOverNine ==
  (displayCalled /\ AllScoresNumeric(data)) =>
    /\ ~alerted
    /\ page.charts # <<>>
    /\ page.class["overallScore"] = "score-value " \o ClassByThreshold(data.overallScore.n)
    /\ \A i \in 1..4 :
         LET name == SkillOrder[i]
             n == GetProperty(data.skills.entries, name).n
             w == page.width[name \o "Progress"]
         IN /\ page.class[name \o "Score"] = "skill-score " \o ClassByThreshold(n)
            /\ w.den > 0
            /\ w.num * 90 = n * w.den
            /\ (n > 9000 <=> w.num > 100 * w.den)
            /\ (n < 0 <=> w.num < 0)

\* C11: a record whose scores are numbers is rendered whatever their range:
\* no alert, every element written, each class given by the same thresholds;
\* for a score of 0 or more the bar is exactly score / 9 * 100 percent, so
\* above 100 for a score above 9; for a negative score the negative
\* percentage the script assigns is dropped and the bar keeps its width.
C11_OutOfRangeRendered ==
  (displayCalled /\ AllScoresNumeric(data)) =>
    /\ ~alerted
    /\ page.charts # <<>>
    /\ page.class["overallScore"] = "score-value " \o ClassByThreshold(data.overallScore.n)
    /\ \A i \in 1..4 :
         LET name == SkillOrder[i]
             n == GetProperty(data.skills.entries, name).n
             w == page.width[name \o "Progress"]
         IN /\ <<name \o "Score", "textContent">> \in page.written
            /\ <<name \o "Feedback", "textContent">> \in page.written
            /\ page.class[name \o "Score"] = "skill-score " \o ClassByThreshold(n)
            /\ n >= 0 =>
                 /\ <<name \o "Progress", "style.width">> \in page.written
                 /\ w.den > 0
                 /\ w.num * 90 = n * w.den
                 /\ (n > 9000 <=> w.num > 100 * w.den)
            /\ n < 0 =>
                 /\ <<name \o "Progress", "style.width">> \notin page.written
                 /\ w = NoWidth

\* the record with -0.25 and 10.0 was rendered: one bar kept its width, one
\* is wider than 100 percent
C11_Witness ==
  /\ pc = "done"
  /\ displayCalled
  /\ ~alerted
  /\ data = OutOfRangeDocument
  /\ page.width["pronunciationProgress"] = NoWidth
  /\ page.text["pronunciationScore"] = "-0.3"
  /\ page.width["fluencyProgress"].num > 100 * page.width["fluencyProgress"].den
  /\ page.class["overallScore"] = "score-value score-excellent"
  /\ page.class["pronunciationScore"] = "skill-score score-poor"

\* C12: for every score of the grid and every category, the class of
\* getScoreClass and the message of getFeedback pair as Excellent with
\* excellent, VeryGood with good, Good with fair, Moderate and
\* NeedsImprovement with poor.
C12_ClassFollowsTier ==
  (call.op = "classAndFeedback") =>
    LET m == feedbackMap[call.cat]
    IN /\ call.str2 = m.excellent => call.str = "score-excellent"
       /\ call.str2 = m.veryGood => call.str = "score-good"
       /\ call.str2 = m.good => call.str = "score-fair"
       /\ call.str2 = m.moderate => call.str = "score-poor"
       /\ call.str2 = m.needsImprovement => call.str = "score-poor"
       /\ \E t \in Tiers : call.str2 = m[t]

\* 6.5 came out Good and fair
C12_Witness ==
  /\ call.op = "classAndFeedback"
  /\ arg = 6500
  /\ call.str2 = feedbackMap[call.cat].good
  /\ call.str = "score-fair"

====
